---- MODULE Spec2Model ----
(***************************************************************************)
(* A model of doublezero-version-sync: one process that loads its          *)
(* configuration, builds a DoubleZero instance and runs sync cycles        *)
(* (DoubleZero.SyncVersion).  A cycle probes the installed version, fetches *)
(* the documentation page twice (semver, package version), asks the        *)
(* validator for its identity, checks the version constraint, compares the *)
(* versions and runs the configured commands.                               *)
(*                                                                         *)
(* Four specifications:                                                    *)
(*   Spec      the process from main on, every probe, GET and RPC call     *)
(*             meeting any outcome;                                        *)
(*   DocsSpec  the cycles of a configured instance whose documentation     *)
(*             site gives one fixed response, with direct resolver calls;  *)
(*   DiffSpec  the methods of a VersionDiff called on any two versions;    *)
(*   SchedSpec the Manager running cycles once or on interval boundaries   *)
(*             against a clock (SchedFair adds the scheduler's fairness).  *)
(*                                                                         *)
(* Representation of text:                                                 *)
(*   a string made of numbers, dots and dashes is the sequence of its      *)
(*   "-"-separated parts, each part the sequence of its "."-separated      *)
(*   numbers: "0.7.1-1" is << <<0,7,1>>, <<1>> >>, "0.7.1" is << <<0,7,1>> >>*)
(*   and "" is << >>.                                                      *)
(*   a parsed *version.Version is <<major, minor, patch, pre>>, pre = 0     *)
(*   meaning "no pre-release part"; a nil pointer is << >>.                 *)
(***************************************************************************)
EXTENDS Integers, Sequences, FiniteSets, TLC

\* ------------------------------------------------------------------ bounds
MaxPatch == 2
MaxCommands == 2

\* ------------------------------------------------- the values of the model
NilVersion == << >>
EmptyString == << >>

\* the releases of the model: 0.6.9 and 0.7.1 .. 0.7.MaxPatch
Releases == {<<0, 6, 9>>} \cup {<<0, 7, p>> : p \in 1 .. MaxPatch}
Revisions == {1}

\* "X.Y.Z"
SemverStrings == { <<t>> : t \in Releases }
\* "X.Y.Z-N", what debianVersionPattern captures
PackageStrings == { <<t, <<r>> >> : t \in Releases, r \in Revisions }
\* what versionPattern captures from the output of `bin --version`
InstalledStrings == SemverStrings \cup PackageStrings

Keys == {"K1", "K2", "K3"}
ClusterNameMainnetBeta == "mainnet-beta"
ClusterNameTestnet == "testnet"
ValidClusterNames == {ClusterNameMainnetBeta, ClusterNameTestnet}

\* ---------------------------------------------------------- go-version
\* a run of digits beyond int64, which strconv.ParseInt rejects
Overflow == -1

\* version.NewVersion on a string of the form X.Y.Z or X.Y.Z-N
NewVersion(s) ==
    IF Len(s) >= 1 /\ Len(s[1]) = 3 /\ \A i \in 1 .. 3 : s[1][i] # Overflow
    THEN <<s[1][1], s[1][2], s[1][3], IF Len(s) >= 2 THEN s[2][1] ELSE 0>>
    ELSE NilVersion

\* Version.Core(): the version without pre-release and metadata
Core(v) == <<v[1], v[2], v[3], 0>>

\* Version.String()
VersionString(v) ==
    IF v[4] = 0 THEN << <<v[1], v[2], v[3]>> >> ELSE << <<v[1], v[2], v[3]>>, <<v[4]>> >>

\* Version.Compare: segments first, then the pre-release part (a version
\* without pre-release is greater than the same version with one)
Compare(a, b) ==
    IF a[1] # b[1] THEN (IF a[1] < b[1] THEN -1 ELSE 1)
    ELSE IF a[2] # b[2] THEN (IF a[2] < b[2] THEN -1 ELSE 1)
    ELSE IF a[3] # b[3] THEN (IF a[3] < b[3] THEN -1 ELSE 1)
    ELSE IF a[4] = b[4] THEN 0
    ELSE IF a[4] = 0 THEN 1
    ELSE IF b[4] = 0 THEN -1
    ELSE IF a[4] < b[4] THEN -1 ELSE 1

\* go-version's prereleaseCheck, used by the ordering comparators
PrereleaseCheck(v, c) ==
    IF v[4] # 0
    THEN c[4] # 0 /\ Core(v) = Core(c)
    ELSE TRUE

\* one comparator of a constraint: [op |-> ..., v |-> version]
ComparatorCheck(c, v) ==
    CASE c.op = "="  -> Compare(v, c.v) = 0
      [] c.op = "!=" -> Compare(v, c.v) # 0
      [] c.op = ">"  -> PrereleaseCheck(v, c.v) /\ Compare(v, c.v) = 1
      [] c.op = ">=" -> PrereleaseCheck(v, c.v) /\ Compare(v, c.v) >= 0
      [] c.op = "<"  -> PrereleaseCheck(v, c.v) /\ Compare(v, c.v) = -1
      [] c.op = "<=" -> PrereleaseCheck(v, c.v) /\ Compare(v, c.v) <= 0

\* Constraints.Check satisfied as soon as one comparator holds
ConstraintsCheck_AnyComparator(cs, v) == \E i \in 1 .. Len(cs) : ComparatorCheck(cs[i], v)

\* Constraints.Check: every comparator of the comma-separated list holds
ConstraintsCheck(cs, v) == \A i \in 1 .. Len(cs) : ComparatorCheck(cs[i], v)

\* ---------------------------------------------------------- versiondiff
\* IsSameVersion comparing the versions as parsed, pre-release part included
IsSameVersion_NoCore(from, to) ==
    IF from = NilVersion \/ to = NilVersion
    THEN FALSE
    ELSE Compare(from, to) = 0

\* IsSameVersion taking two absent versions for the same
IsSameVersion_NilEqual(from, to) ==
    IF from = NilVersion /\ to = NilVersion
    THEN TRUE
    ELSE IF from = NilVersion \/ to = NilVersion
    THEN FALSE
    ELSE Compare(Core(from), Core(to)) = 0

IsSameVersion(from, to) ==
    IF from = NilVersion \/ to = NilVersion
    THEN FALSE
    ELSE Compare(Core(from), Core(to)) = 0

\* Direction without the test of IsSameVersion
Direction_NoSameCheck(from, to) ==
    IF Compare(Core(to), Core(from)) = 1 THEN "upgrade"
    ELSE "downgrade"

\* Direction comparing From with To the wrong way round
Direction_Swapped(from, to) ==
    IF IsSameVersion(from, to) THEN "no change"
    ELSE IF Compare(Core(from), Core(to)) = 1 THEN "upgrade"
    ELSE "downgrade"

\* Direction comparing the versions as parsed, pre-release part included
Direction_WithPrerelease(from, to) ==
    IF Compare(from, to) = 0 THEN "no change"
    ELSE IF Compare(to, from) = 1 THEN "upgrade"
    ELSE "downgrade"

Direction(from, to) ==
    IF IsSameVersion(from, to) THEN "no change"
    ELSE IF Compare(Core(to), Core(from)) = 1 THEN "upgrade"
    ELSE "downgrade"

DirectionEmoji(from, to) ==
    IF IsSameVersion(from, to) THEN "="
    ELSE IF Compare(Core(to), Core(from)) = 1 THEN "up arrow"
    ELSE "down arrow"

\* the text of v.Core().String()
CoreText(v) == ToString(v[1]) \o "." \o ToString(v[2]) \o "." \o ToString(v[3])

\* -------------------------------------------------------- versionsource
\* A document is the sequence of its top-level elements in document order;
\* an element is [tag, text, kids]: text is the sequence of the version
\* strings debianVersionPattern captures in the element's own text nodes,
\* kids the sequence of its child elements (leaves, kids = << >>).
CodeElement(text) == [tag |-> "code", text |-> text, kids |-> << >>]

RECURSIVE ConcatText(_)
ConcatText(es) ==
    IF es = << >> THEN << >> ELSE Head(es).text \o ConcatText(Tail(es))

\* extractText: the text nodes of the element and of its descendants
extractText(n) == n.text \o ConcatText(n.kids)

hasCodeChild(n) == \E i \in 1 .. Len(n.kids) : n.kids[i].tag = "code"

\* the loop body that appends every match while fewer than two are held
RECURSIVE CollectMatches_NoSeen(_, _)
CollectMatches_NoSeen(found, matches) ==
    IF matches = << >> THEN found
    ELSE CollectMatches_NoSeen(IF Len(found) < 2 THEN Append(found, Head(matches)) ELSE found,
                               Tail(matches))

\* the body of the loop over one element's matches: append what is neither
\* seen nor beyond the second entry
RECURSIVE CollectMatches(_, _)
CollectMatches(found, matches) ==
    IF matches = << >> THEN found
    ELSE LET version == Head(matches)
             seen == \E i \in 1 .. Len(found) : found[i] = version
         IN CollectMatches(IF ~seen /\ Len(found) < 2 THEN Append(found, version) ELSE found,
                           Tail(matches))

\* traverse applied to one node: the node itself, then its children
RECURSIVE traverse(_, _)
RECURSIVE traverseAll(_, _)
traverse(found, n) ==
    LET here == IF n.tag = "code" \/ (n.tag = "pre" /\ hasCodeChild(n))
                THEN CollectMatches(found, extractText(n))
                ELSE found
    IN traverseAll(here, n.kids)
traverseAll(found, es) ==
    IF es = << >> THEN found ELSE traverseAll(traverse(found, Head(es)), Tail(es))

ClusterMatchIndex(cluster) ==
    CASE cluster = ClusterNameMainnetBeta -> 0
      [] cluster = ClusterNameTestnet -> 1
      [] OTHER -> -1

\* parseVersionFromHTML looking at the cluster name before the matches
parseVersionFromHTML_ClusterFirst(doc, cluster) ==
    LET foundVersions == traverseAll(<< >>, doc)
        matchIndex == ClusterMatchIndex(cluster)
    IN IF matchIndex = -1
       THEN [err |-> "parse: unknown cluster", val |-> EmptyString]
       ELSE IF Len(foundVersions) = 0
       THEN [err |-> "parse: no install pattern found", val |-> EmptyString]
       ELSE IF matchIndex >= Len(foundVersions)
       THEN [err |-> "parse: could not find version for cluster " \o cluster
                        \o " (found " \o ToString(Len(foundVersions)) \o " matches, need index "
                        \o ToString(matchIndex) \o ")",
             val |-> EmptyString]
       ELSE [err |-> "", val |-> foundVersions[matchIndex + 1]]

\* parseVersionFromHTML giving the last collected version to a cluster
\* whose position is missing
parseVersionFromHTML_FallBack(doc, cluster) ==
    LET foundVersions == traverseAll(<< >>, doc)
        matchIndex == ClusterMatchIndex(cluster)
    IN IF Len(foundVersions) = 0
       THEN [err |-> "parse: no install pattern found", val |-> EmptyString]
       ELSE IF matchIndex = -1
       THEN [err |-> "parse: unknown cluster", val |-> EmptyString]
       ELSE IF matchIndex >= Len(foundVersions)
       THEN [err |-> "", val |-> foundVersions[Len(foundVersions)]]
       ELSE [err |-> "", val |-> foundVersions[matchIndex + 1]]

\* parseVersionFromHTML on a readable body: [err, val]
parseVersionFromHTML(doc, cluster) ==
    LET foundVersions == traverseAll(<< >>, doc)
        matchIndex == ClusterMatchIndex(cluster)
    IN IF Len(foundVersions) = 0
       THEN [err |-> "parse: no install pattern found", val |-> EmptyString]
       ELSE IF matchIndex = -1
       THEN [err |-> "parse: unknown cluster", val |-> EmptyString]
       ELSE IF matchIndex >= Len(foundVersions)
       THEN [err |-> "parse: could not find version for cluster " \o cluster
                        \o " (found " \o ToString(Len(foundVersions)) \o " matches, need index "
                        \o ToString(matchIndex) \o ")",
             val |-> EmptyString]
       ELSE [err |-> "", val |-> foundVersions[matchIndex + 1]]

\* what one GET of the documentation page can give
HTTPOutcomes == {"network error", "status 204", "status 404", "status 200, unreadable body",
                 "status 200"}

\* fetchVersionFromDocs handing every 2xx response to the parser
fetchVersionFromDocs_Any2xxParsed(http, doc, cluster) ==
    CASE http = "network error" -> [err |-> "fetch: request failed", val |-> EmptyString]
      [] http = "status 404" -> [err |-> "fetch: docs returned status", val |-> EmptyString]
      [] http = "status 200, unreadable body" ->
            [err |-> "parse: failed to parse HTML", val |-> EmptyString]
      [] http \in {"status 200", "status 204"} -> parseVersionFromHTML(doc, cluster)

\* fetchVersionFromDocs: one GET, then the parser
fetchVersionFromDocs(http, doc, cluster) ==
    CASE http = "network error" -> [err |-> "fetch: request failed", val |-> EmptyString]
      [] http \in {"status 204", "status 404"} ->
            [err |-> "fetch: docs returned status", val |-> EmptyString]
      [] http = "status 200, unreadable body" ->
            [err |-> "parse: failed to parse HTML", val |-> EmptyString]
      [] http = "status 200" -> parseVersionFromHTML(doc, cluster)

\* the package string handed to NewVersion whole, revision included
SemverPart_WholeString(packageVersion) == packageVersion

\* strings.Split(packageVersion, "-")[0]
SemverPart(packageVersion) == << packageVersion[1] >>

\* GetRecommendedVersion: [err, val] with val a parsed version
GetRecommendedVersion(http, doc, cluster) ==
    LET r == fetchVersionFromDocs(http, doc, cluster)
    IN IF r.err # "" THEN [err |-> r.err, val |-> NilVersion]
       ELSE LET v == NewVersion(SemverPart(r.val))
            IN IF v = NilVersion
               THEN [err |-> "failed to parse recommended version", val |-> NilVersion]
               ELSE [err |-> "", val |-> v]

\* GetRecommendedPackageVersion: [err, val] with val the package string
GetRecommendedPackageVersion(http, doc, cluster) == fetchVersionFromDocs(http, doc, cluster)

\* ------------------------------------------------------------------ rpc
\* what one getIdentity call can meet
RPCReplyKinds == {"transport error", "status not 200", "undecodable", "rpc error",
                  "result not an object", "identity not a string", "ok"}

\* Client.GetIdentity: [err, val]
GetIdentity(kind, identity) ==
    IF kind = "ok" THEN [err |-> "", val |-> identity]
    ELSE [err |-> "failed to get identity: " \o kind, val |-> ""]

\* -------------------------------------------------------- identity gate
isValidatorActive(validatorIdentity, activeIdentityPK) == validatorIdentity = activeIdentityPK

isValidatorPassive(validatorIdentity, passiveIdentityPK) == validatorIdentity = passiveIdentityPK

\* isValidatorUnknown that only takes the empty identity for unknown
isValidatorUnknown_EmptyOnly(validatorIdentity, activeIdentityPK, passiveIdentityPK) ==
    validatorIdentity = ""

isValidatorUnknown(validatorIdentity, activeIdentityPK, passiveIdentityPK) ==
    validatorIdentity # activeIdentityPK /\ validatorIdentity # passiveIdentityPK

\* checkValidatorIdentity testing for the passive identity before the
\* active one
checkValidatorIdentity_PassiveFirst(reply, activeIdentityPK, passiveIdentityPK, enabledWhenActive) ==
    IF reply.err # "" THEN "failed to get validator identity: " \o reply.err
    ELSE IF isValidatorUnknown(reply.val, activeIdentityPK, passiveIdentityPK)
    THEN "validator identity does not match"
    ELSE IF isValidatorPassive(reply.val, passiveIdentityPK)
    THEN ""
    ELSE IF isValidatorActive(reply.val, activeIdentityPK) /\ ~enabledWhenActive
    THEN "sync not allowed when validator is active"
    ELSE IF isValidatorActive(reply.val, activeIdentityPK) /\ enabledWhenActive
    THEN ""
    ELSE "unexpected validator identity state"

\* checkValidatorIdentity without the block of the active identity
checkValidatorIdentity_NoActiveBlock(reply, activeIdentityPK, passiveIdentityPK, enabledWhenActive) ==
    IF reply.err # "" THEN "failed to get validator identity: " \o reply.err
    ELSE IF isValidatorUnknown(reply.val, activeIdentityPK, passiveIdentityPK)
    THEN "validator identity does not match"
    ELSE ""

\* checkValidatorIdentity reading enabled_when_active the wrong way round
checkValidatorIdentity_FlagInverted(reply, activeIdentityPK, passiveIdentityPK, enabledWhenActive) ==
    IF reply.err # "" THEN "failed to get validator identity: " \o reply.err
    ELSE IF isValidatorUnknown(reply.val, activeIdentityPK, passiveIdentityPK)
    THEN "validator identity does not match"
    ELSE IF isValidatorActive(reply.val, activeIdentityPK) /\ enabledWhenActive
    THEN "sync not allowed when validator is active"
    ELSE IF isValidatorActive(reply.val, activeIdentityPK) /\ ~enabledWhenActive
    THEN ""
    ELSE IF isValidatorPassive(reply.val, passiveIdentityPK)
    THEN ""
    ELSE "unexpected validator identity state"

\* checkValidatorIdentity taking a failed query for a passive validator
checkValidatorIdentity_FailureIsPassive(reply, activeIdentityPK, passiveIdentityPK, enabledWhenActive) ==
    IF reply.err # "" THEN ""
    ELSE IF isValidatorUnknown(reply.val, activeIdentityPK, passiveIdentityPK)
    THEN "validator identity does not match"
    ELSE IF isValidatorActive(reply.val, activeIdentityPK) /\ ~enabledWhenActive
    THEN "sync not allowed when validator is active"
    ELSE IF isValidatorActive(reply.val, activeIdentityPK) /\ enabledWhenActive
    THEN ""
    ELSE IF isValidatorPassive(reply.val, passiveIdentityPK)
    THEN ""
    ELSE "unexpected validator identity state"

\* checkValidatorIdentity given the answer of GetIdentity: the error kind, "" for nil
checkValidatorIdentity(reply, activeIdentityPK, passiveIdentityPK, enabledWhenActive) ==
    IF reply.err # "" THEN "failed to get validator identity: " \o reply.err
    ELSE IF isValidatorUnknown(reply.val, activeIdentityPK, passiveIdentityPK)
    THEN "validator identity does not match"
    ELSE IF isValidatorActive(reply.val, activeIdentityPK) /\ ~enabledWhenActive
    THEN "sync not allowed when validator is active"
    ELSE IF isValidatorActive(reply.val, activeIdentityPK) /\ enabledWhenActive
    THEN ""
    ELSE IF isValidatorPassive(reply.val, passiveIdentityPK)
    THEN ""
    ELSE "unexpected validator identity state"

\* ------------------------------------------------------ constraint gate
\* the constraint check that logs a violation and goes on
ConstraintGate_NoReturn(versionConstraint, to) == ""

\* the constraint check that takes version_constraint for required
ConstraintGate_Required(versionConstraint, to) ==
    IF versionConstraint = EmptyString \/ ~ConstraintsCheck(versionConstraint, Core(to))
    THEN "target version does not satisfy doublezero.version_constraint"
    ELSE ""

\* SyncVersion's constraint check: the error kind, "" when the gate passes
ConstraintGate(versionConstraint, to) ==
    IF versionConstraint # EmptyString
    THEN IF ~ConstraintsCheck(versionConstraint, Core(to))
         THEN "target version does not satisfy doublezero.version_constraint"
         ELSE ""
    ELSE ""

\* --------------------------------------------------------------- config
\* doublezero.New setting the client up whatever the configuration
RPCClientSetUp_Always(rpcURL, activeKeyPair, passiveKeyPair) == TRUE

\* doublezero.New: is the RPC client set up?
RPCClientSetUp(rpcURL, activeKeyPair, passiveKeyPair) ==
    rpcURL # "" /\ activeKeyPair # "" /\ passiveKeyPair # ""

\* the template data with the installed version as probed, suffix included
CommandTemplateData_RawFrom(cmd_i, commandsCount, cluster, from, to, packageVersion) ==
    [CommandIndex |-> cmd_i,
     CommandsCount |-> commandsCount,
     ClusterName |-> cluster,
     VersionFrom |-> VersionString(from),
     VersionTo |-> VersionString(Core(to)),
     PackageVersionTo |-> packageVersion]

\* the record handed to ExecuteWithData for the command at index cmd_i
CommandTemplateData(cmd_i, commandsCount, cluster, from, to, packageVersion) ==
    [CommandIndex |-> cmd_i,
     CommandsCount |-> commandsCount,
     ClusterName |-> cluster,
     VersionFrom |-> VersionString(Core(from)),
     VersionTo |-> VersionString(Core(to)),
     PackageVersionTo |-> packageVersion]

\* setKoanfDefaults: the default of validator.rpc_url ("" = not set)
RPCURLDefault == ""

\* LoadFromFile: a key the file omits takes its default
LoadedRPCURL(fileRPCURL) == IF fileRPCURL = "" THEN RPCURLDefault ELSE fileRPCURL

\* --------------------------------------------------------------- probe
\* what `bin --version` can give: the command fails, its output holds no
\* version, or versionPattern captures out
ProbeOutcomes ==
    {[kind |-> "command failed", out |-> EmptyString],
     [kind |-> "no version in output", out |-> EmptyString]}
    \cup {[kind |-> "ok", out |-> s] : s \in InstalledStrings}

\* getInstalledVersion: [err, val]
getInstalledVersion(probe) ==
    IF probe.kind = "command failed"
    THEN [err |-> "bin command failed", val |-> NilVersion]
    ELSE IF probe.kind = "no version in output"
    THEN [err |-> "could not extract version from bin output", val |-> NilVersion]
    ELSE LET v == NewVersion(probe.out)
         IN IF v = NilVersion
            THEN [err |-> "failed to parse version from bin output", val |-> NilVersion]
            ELSE [err |-> "", val |-> v]

\* ------------------------------------------------------- sample inputs
\* version constraints an operator may configure; EmptyString is "not configured"
ConstraintSamples ==
    {EmptyString,
     << [op |-> ">=", v |-> <<0, 6, 9, 0>>], [op |-> "<", v |-> <<0, 7, 2, 0>>] >>}

\* the documents of the cycle model: up to two code elements, one install
\* command each
Docs ==
    {<< >>}
    \cup {<< CodeElement(<<a>>) >> : a \in PackageStrings}
    \cup {<< CodeElement(<<a>>), CodeElement(<<b>>) >> : a \in PackageStrings, b \in PackageStrings}

\* what one GET can meet: a failure, or a document
FetchInputs ==
    {[http |-> h, doc |-> << >>] : h \in HTTPOutcomes \ {"status 200"}}
    \cup {[http |-> "status 200", doc |-> d] : d \in Docs}

\* what one getIdentity call can meet: a failure, or a reported key
RPCReplies ==
    {[kind |-> k, identity |-> ""] : k \in RPCReplyKinds \ {"ok"}}
    \cup {[kind |-> "ok", identity |-> k] : k \in Keys}

ConfigFiles ==
    [rpcURL : {"", "http://validator:8899"},
     activeFile : {"", "K1"},
     passiveFile : {"", "K1", "K2"},
     enabledWhenActive : BOOLEAN,
     versionConstraint : ConstraintSamples,
     commandsCount : 0 .. MaxCommands,
     cluster : ValidClusterNames \cup {"devnet"}]

\* --------------------------------------------------------------- state
VARIABLES
    mgr,                 \* the Manager's run: its mode, where RunOnce or RunOnInterval
                         \* stands, the clock and the sleep in progress
                         \* (since: the clock reached a boundary since the wait or the
                         \* cycle in progress began; skipped: it reached one during the
                         \* last cycle)
    env,                 \* the world of the run: [fixed |-> FALSE] when every probe and every
                         \* GET may meet anything, else the bin's output and the response
                         \* of the documentation site, the same for the whole run
    call,                \* direct calls: the value a function is called on
    ret,                 \* direct calls: what the last call returned
    gets,                \* the number of GETs the current cycle has issued
    configFile,          \* the YAML file: "" is an omitted key
    cfg,                 \* config.Config after LoadFromFile and Initialize
    validatorRPCClient,  \* DoubleZero.validatorRPCClient # nil
    pc,                  \* where the process is
    stateVersion,        \* DoubleZero.State.Version
    installedVersion,    \* refreshState's installedVersion: what the probe of the cycle returned
    versionTo,           \* SyncVersion's versionDiff.To
    packageVersion,      \* SyncVersion's packageVersion
    cmd_i,               \* SyncVersion's loop index
    err,                 \* what the last SyncVersion returned, "" for nil
    trace,               \* the steps this cycle performed: [step, err]
    executed,            \* the template data of this cycle's ExecuteWithData calls
    reported             \* the identity this cycle's getIdentity returned, "" if none

vars == <<mgr, env, call, ret, gets, configFile, cfg, validatorRPCClient, pc,
          stateVersion, installedVersion, versionTo,
          packageVersion, cmd_i, err, trace, executed, reported>>

cycleVars == <<gets, versionTo, packageVersion, cmd_i, err, trace, executed, reported>>

NoConfig ==
    [rpcURL |-> "", activeKeyPair |-> "", passiveKeyPair |-> "", enabledWhenActive |-> FALSE,
     versionConstraint |-> EmptyString, commandsCount |-> 0, cluster |-> ""]

NoCall == [fn |-> "none"]

\* no Manager method under observation
NoManager == [mode |-> "none"]

\* what the probe of this cycle can meet
ProbeMeets == IF env.fixed THEN {env.probe} ELSE ProbeOutcomes

\* what a GET of this cycle can meet
Responses == IF env.fixed THEN {[http |-> env.http, doc |-> env.doc]} ELSE FetchInputs

Init ==
    /\ mgr = NoManager
    /\ env = [fixed |-> FALSE]
    /\ call = NoCall
    /\ ret = NoCall
    /\ gets = 0
    /\ configFile \in ConfigFiles
    /\ cfg = NoConfig
    /\ validatorRPCClient = FALSE
    /\ pc = "main"
    /\ stateVersion = NilVersion
    /\ installedVersion = NilVersion
    /\ versionTo = NilVersion
    /\ packageVersion = EmptyString
    /\ cmd_i = 0
    /\ err = ""
    /\ trace = << >>
    /\ executed = << >>
    /\ reported = ""

\* Config.Initialize after LoadFromFile: the error kind, "" for nil
InitializeError(rpcURL, activeFile, passiveFile, cluster, keysLoad) ==
    IF rpcURL # "" /\ (activeFile = "" \/ passiveFile = "")
    THEN "validator.rpc_url is configured but identities must be provided"
    ELSE IF rpcURL # "" /\ ~keysLoad
    THEN "failed to load validator identities"
    ELSE IF cluster \notin ValidClusterNames
    THEN "invalid cluster name"
    ELSE ""

\* config.NewFromConfigFile: LoadFromFile, then Initialize
NewFromConfigFile ==
    /\ pc = "main"
    /\ \E keysLoad \in BOOLEAN :
          LET rpcURL == LoadedRPCURL(configFile.rpcURL)
              e == InitializeError(rpcURL, configFile.activeFile, configFile.passiveFile,
                                   configFile.cluster, keysLoad)
          IN IF e # ""
             THEN /\ pc' = "exit"
                  /\ err' = e
                  /\ cfg' = cfg
             ELSE /\ pc' = "configured"
                  /\ err' = ""
                  /\ cfg' = [rpcURL |-> rpcURL,
                             activeKeyPair |-> IF rpcURL # "" THEN configFile.activeFile ELSE "",
                             passiveKeyPair |-> IF rpcURL # "" THEN configFile.passiveFile ELSE "",
                             enabledWhenActive |-> configFile.enabledWhenActive,
                             versionConstraint |-> configFile.versionConstraint,
                             commandsCount |-> configFile.commandsCount,
                             cluster |-> configFile.cluster]
    /\ UNCHANGED <<mgr, env, call, ret, gets, configFile, validatorRPCClient,
                   stateVersion, installedVersion, versionTo, packageVersion,
                   cmd_i, trace, executed, reported>>

\* manager.NewFromConfig -> doublezero.New
New ==
    /\ pc = "configured"
    /\ validatorRPCClient' = RPCClientSetUp(cfg.rpcURL, cfg.activeKeyPair, cfg.passiveKeyPair)
    /\ pc' = "ready"
    /\ UNCHANGED <<mgr, env, call, ret, configFile, cfg, stateVersion, installedVersion, cycleVars>>

Return(e) ==
    /\ pc' = "returned"
    /\ err' = e

\* refreshState keeping the version an earlier cycle left in State
RefreshState_KeepState ==
    /\ pc \in {"ready", "returned"}
    /\ \E probe \in ProbeMeets :
          LET r == getInstalledVersion(probe)
          IN /\ trace' = << [step |-> "probe", err |-> r.err] >>
             /\ installedVersion' = r.val
             /\ IF r.err # ""
                THEN /\ Return(r.err)
                     /\ stateVersion' = stateVersion
                ELSE /\ pc' = "recommended"
                     /\ err' = ""
                     /\ stateVersion' = IF stateVersion # NilVersion THEN stateVersion ELSE r.val
    /\ gets' = 0
    /\ versionTo' = NilVersion
    /\ packageVersion' = EmptyString
    /\ cmd_i' = 0
    /\ executed' = << >>
    /\ reported' = ""
    /\ UNCHANGED <<mgr, env, call, ret, configFile, cfg, validatorRPCClient>>

\* SyncVersion, lines 88-103: a new cycle starts with refreshState
RefreshState ==
    /\ pc \in {"ready", "returned"}
    /\ \E probe \in ProbeMeets :
          LET r == getInstalledVersion(probe)
          IN /\ trace' = << [step |-> "probe", err |-> r.err] >>
             /\ installedVersion' = r.val
             /\ IF r.err # ""
                THEN /\ Return(r.err)
                     /\ stateVersion' = stateVersion
                ELSE /\ pc' = "recommended"
                     /\ err' = ""
                     /\ stateVersion' = r.val
    /\ gets' = 0
    /\ versionTo' = NilVersion
    /\ packageVersion' = EmptyString
    /\ cmd_i' = 0
    /\ executed' = << >>
    /\ reported' = ""
    /\ UNCHANGED <<mgr, env, call, ret, configFile, cfg, validatorRPCClient>>

\* SyncVersion, lines 105-111
FetchRecommendedVersion ==
    /\ pc = "recommended"
    /\ \E inp \in Responses :
          LET r == GetRecommendedVersion(inp.http, inp.doc, cfg.cluster)
          IN /\ trace' = Append(trace, [step |-> "fetch semver", err |-> r.err])
             /\ IF r.err # ""
                THEN /\ Return(r.err)
                     /\ versionTo' = versionTo
                ELSE /\ pc' = "package"
                     /\ err' = err
                     /\ versionTo' = r.val
    /\ gets' = gets + 1
    /\ UNCHANGED <<mgr, env, call, ret, configFile, cfg, validatorRPCClient,
                   stateVersion, installedVersion, packageVersion,
                   cmd_i, executed, reported>>

\* the second fetch with its error dropped
FetchPackageVersion_IgnoreError ==
    /\ pc = "package"
    /\ \E inp \in Responses :
          LET r == GetRecommendedPackageVersion(inp.http, inp.doc, cfg.cluster)
          IN /\ trace' = Append(trace, [step |-> "fetch package", err |-> r.err])
             /\ pc' = IF validatorRPCClient THEN "identity" ELSE "gates"
             /\ err' = err
             /\ packageVersion' = r.val
    /\ gets' = gets + 1
    /\ UNCHANGED <<mgr, env, call, ret, configFile, cfg, validatorRPCClient,
                   stateVersion, installedVersion, versionTo,
                   cmd_i, executed, reported>>

\* SyncVersion, lines 113-123: the second fetch, then the test of the client
FetchPackageVersion ==
    /\ pc = "package"
    /\ \E inp \in Responses :
          LET r == GetRecommendedPackageVersion(inp.http, inp.doc, cfg.cluster)
          IN /\ trace' = Append(trace, [step |-> "fetch package", err |-> r.err])
             /\ IF r.err # ""
                THEN /\ Return(r.err)
                     /\ packageVersion' = packageVersion
                ELSE /\ pc' = IF validatorRPCClient THEN "identity" ELSE "gates"
                     /\ err' = err
                     /\ packageVersion' = r.val
    /\ gets' = gets + 1
    /\ UNCHANGED <<mgr, env, call, ret, configFile, cfg, validatorRPCClient,
                   stateVersion, installedVersion, versionTo,
                   cmd_i, executed, reported>>

\* the gate passed without a query, the validator being taken for passive
IdentityGate_AssumePassive ==
    /\ pc = "identity"
    /\ pc' = "gates"
    /\ UNCHANGED <<mgr, env, call, ret, gets, configFile, cfg, validatorRPCClient,
                   stateVersion, installedVersion,
                   versionTo, packageVersion, cmd_i, err, trace, executed, reported>>

\* SyncVersion, lines 123-127: checkValidatorIdentity
IdentityGate ==
    /\ pc = "identity"
    /\ \E inp \in RPCReplies :
          LET reply == GetIdentity(inp.kind, inp.identity)
              e == checkValidatorIdentity(reply, cfg.activeKeyPair, cfg.passiveKeyPair,
                                          cfg.enabledWhenActive)
          IN /\ trace' = Append(trace, [step |-> "getIdentity", err |-> e])
             /\ reported' = reply.val
             /\ IF e # "" THEN Return(e) ELSE pc' = "gates" /\ err' = err
    /\ UNCHANGED <<mgr, env, call, ret, gets, configFile, cfg, validatorRPCClient,
                   stateVersion, installedVersion, versionTo,
                   packageVersion, cmd_i, executed>>

\* the cycle reporting an error when no command is configured
ConstraintAndDiff_ZeroCommandsError ==
    /\ pc = "gates"
    /\ LET e == ConstraintGate(cfg.versionConstraint, versionTo)
           checked == IF cfg.versionConstraint # EmptyString
                      THEN << [step |-> "constraint", err |-> e] >>
                      ELSE << >>
       IN IF e # ""
          THEN /\ trace' = trace \o checked
               /\ Return(e)
          ELSE /\ trace' = trace \o checked \o << [step |-> "diff", err |-> ""] >>
               /\ IF IsSameVersion(stateVersion, versionTo)
                  THEN Return("")
                  ELSE IF cfg.commandsCount = 0
                  THEN Return("no configured commands to execute")
                  ELSE pc' = "commands" /\ err' = err
    /\ UNCHANGED <<mgr, env, call, ret, gets, configFile, cfg, validatorRPCClient,
                   stateVersion, installedVersion, versionTo,
                   packageVersion, cmd_i, executed, reported>>

\* the cycle that syncs only towards a higher version
ConstraintAndDiff_UpgradeOnly ==
    /\ pc = "gates"
    /\ LET e == ConstraintGate(cfg.versionConstraint, versionTo)
           checked == IF cfg.versionConstraint # EmptyString
                      THEN << [step |-> "constraint", err |-> e] >>
                      ELSE << >>
       IN IF e # ""
          THEN /\ trace' = trace \o checked
               /\ Return(e)
          ELSE /\ trace' = trace \o checked \o << [step |-> "diff", err |-> ""] >>
               /\ IF Direction(stateVersion, versionTo) # "upgrade" \/ cfg.commandsCount = 0
                  THEN Return("")
                  ELSE pc' = "commands" /\ err' = err
    /\ UNCHANGED <<mgr, env, call, ret, gets, configFile, cfg, validatorRPCClient,
                   stateVersion, installedVersion,
                   versionTo, packageVersion, cmd_i, executed, reported>>

\* the cycle that tests for the same version before the constraint
ConstraintAndDiff_SameVersionFirst ==
    /\ pc = "gates"
    /\ LET e == ConstraintGate(cfg.versionConstraint, versionTo)
           checked == IF cfg.versionConstraint # EmptyString
                      THEN << [step |-> "constraint", err |-> e] >>
                      ELSE << >>
       IN IF IsSameVersion(stateVersion, versionTo)
          THEN /\ trace' = trace \o << [step |-> "diff", err |-> ""] >>
               /\ Return("")
          ELSE IF e # ""
          THEN /\ trace' = trace \o checked
               /\ Return(e)
          ELSE /\ trace' = trace \o checked \o << [step |-> "diff", err |-> ""] >>
               /\ IF cfg.commandsCount = 0
                  THEN Return("")
                  ELSE pc' = "commands" /\ err' = err
    /\ UNCHANGED <<mgr, env, call, ret, gets, configFile, cfg, validatorRPCClient,
                   stateVersion, installedVersion,
                   versionTo, packageVersion, cmd_i, executed, reported>>

\* SyncVersion, lines 129-156: the constraint gate, the diff and the test
\* of the number of commands
ConstraintAndDiff ==
    /\ pc = "gates"
    /\ LET e == ConstraintGate(cfg.versionConstraint, versionTo)
           checked == IF cfg.versionConstraint # EmptyString
                      THEN << [step |-> "constraint", err |-> e] >>
                      ELSE << >>
       IN IF e # ""
          THEN /\ trace' = trace \o checked
               /\ Return(e)
          ELSE /\ trace' = trace \o checked \o << [step |-> "diff", err |-> ""] >>
               /\ IF IsSameVersion(stateVersion, versionTo) \/ cfg.commandsCount = 0
                  THEN Return("")
                  ELSE pc' = "commands" /\ err' = err
    /\ UNCHANGED <<mgr, env, call, ret, gets, configFile, cfg, validatorRPCClient,
                   stateVersion, installedVersion, versionTo,
                   packageVersion, cmd_i, executed, reported>>

\* the loop going on to the next command after a failed one
AfterCommand_ContinueOnError(execErr, i, commandsCount) ==
    IF i + 1 < commandsCount THEN [pc |-> "commands", err |-> "", cmd_i |-> i + 1]
    ELSE [pc |-> "returned", err |-> execErr, cmd_i |-> i]

\* the loop of SyncVersion after ExecuteWithData returned execErr for the
\* command at cmd_i: [pc, err, cmd_i]
AfterCommand(execErr, i, commandsCount) ==
    IF execErr # "" THEN [pc |-> "returned", err |-> execErr, cmd_i |-> i]
    ELSE IF i + 1 < commandsCount THEN [pc |-> "commands", err |-> "", cmd_i |-> i + 1]
    ELSE [pc |-> "returned", err |-> "", cmd_i |-> i]

\* SyncVersion, lines 158-176: one iteration of the loop over the commands.
\* ExecuteWithData reports an error or nil.
\* the command loop that queries the identity gate again before every
\* command after the first
ExecuteCommand_RecheckGate ==
    /\ pc = "commands"
    /\ \E execErr \in {"", "command failed"}, inp \in RPCReplies :
          LET again == validatorRPCClient /\ cmd_i > 0
              reply == GetIdentity(inp.kind, inp.identity)
              e == checkValidatorIdentity(reply, cfg.activeKeyPair, cfg.passiveKeyPair,
                                          cfg.enabledWhenActive)
              asked == IF again THEN << [step |-> "getIdentity", err |-> e] >> ELSE << >>
              next == AfterCommand(execErr, cmd_i, cfg.commandsCount)
          IN IF again /\ e # ""
             THEN /\ trace' = trace \o asked
                  /\ Return(e)
                  /\ UNCHANGED <<executed, cmd_i>>
             ELSE /\ executed' = Append(executed,
                         CommandTemplateData(cmd_i, cfg.commandsCount, cfg.cluster,
                                             stateVersion, versionTo, packageVersion))
                  /\ trace' = trace \o asked \o << [step |-> "exec", err |-> execErr] >>
                  /\ pc' = next.pc
                  /\ err' = next.err
                  /\ cmd_i' = next.cmd_i
    /\ UNCHANGED <<mgr, env, call, ret, gets, configFile, cfg, validatorRPCClient,
                   stateVersion, installedVersion, versionTo,
                   packageVersion, reported>>

ExecuteCommand ==
    /\ pc = "commands"
    /\ \E execErr \in {"", "command failed"} :
          LET next == AfterCommand(execErr, cmd_i, cfg.commandsCount)
          IN /\ executed' = Append(executed,
                    CommandTemplateData(cmd_i, cfg.commandsCount, cfg.cluster,
                                        stateVersion, versionTo, packageVersion))
             /\ trace' = Append(trace, [step |-> "exec", err |-> execErr])
             /\ pc' = next.pc
             /\ err' = next.err
             /\ cmd_i' = next.cmd_i
    /\ UNCHANGED <<mgr, env, call, ret, gets, configFile, cfg, validatorRPCClient,
                   stateVersion, installedVersion, versionTo,
                   packageVersion, reported>>

Next ==
    \/ NewFromConfigFile
    \/ New
    \/ RefreshState
    \/ FetchRecommendedVersion
    \/ FetchPackageVersion
    \/ IdentityGate
    \/ ConstraintAndDiff
    \/ ExecuteCommand

Spec == Init /\ [][Next]_vars


\* ------------------------------------------------ cycles on one document
\* The cycles of a manager whose documentation site answers every GET the
\* same way, the installed version being 0.6.9, together with direct calls
\* of the resolver for any cluster name.
MaxBlocks == 2

\* the versions of the install commands of a page: below, at and inside the
\* sample constraint, at its upper end, and one whose patch number is
\* beyond int64
PageVersions ==
    {<< <<0, 6, 8>>, <<1>> >>, << <<0, 6, 9>>, <<1>> >>, << <<0, 7, 1>>, <<1>> >>,
     << <<0, 7, 2>>, <<2>> >>, << <<0, 7, Overflow>>, <<1>> >>}

\* the top-level elements of a page: <code> with one install command,
\* <code> with two, <pre><code>, and a paragraph quoting a command
Blocks ==
    {CodeElement(<<v>>) : v \in PageVersions}
    \cup {CodeElement(<< << <<0, 7, 1>>, <<1>> >>, << <<0, 7, 2>>, <<2>> >> >>)}
    \cup {[tag |-> "pre", text |-> << >>, kids |-> << CodeElement(<< << <<0, 7, 1>>, <<1>> >> >>) >>]}
    \cup {[tag |-> "p", text |-> << << <<0, 7, 2>>, <<2>> >> >>, kids |-> << >>]}

Pages == UNION {[1 .. n -> Blocks] : n \in 0 .. MaxBlocks}

DocsInit ==
    /\ mgr = NoManager
    /\ env \in {[fixed |-> TRUE, probe |-> [kind |-> "ok", out |-> << <<0, 6, 9>> >>],
                 http |-> h, doc |-> << >>] : h \in HTTPOutcomes \ {"status 200"}}
               \cup {[fixed |-> TRUE, probe |-> [kind |-> "ok", out |-> << <<0, 6, 9>> >>],
                      http |-> "status 200", doc |-> d] : d \in Pages}
    /\ call = NoCall
    /\ ret = NoCall
    /\ gets = 0
    /\ configFile \in {f \in ConfigFiles :
            /\ f.rpcURL = "" /\ f.activeFile = "" /\ f.passiveFile = ""
            /\ ~f.enabledWhenActive
            /\ f.commandsCount = 1
            /\ f.cluster \in ValidClusterNames}
    /\ cfg = [rpcURL |-> "", activeKeyPair |-> "", passiveKeyPair |-> "",
              enabledWhenActive |-> FALSE,
              versionConstraint |-> configFile.versionConstraint,
              commandsCount |-> configFile.commandsCount,
              cluster |-> configFile.cluster]
    /\ validatorRPCClient = RPCClientSetUp(cfg.rpcURL, cfg.activeKeyPair, cfg.passiveKeyPair)
    /\ pc = "ready"
    /\ stateVersion = NilVersion
    /\ installedVersion = NilVersion
    /\ versionTo = NilVersion
    /\ packageVersion = EmptyString
    /\ cmd_i = 0
    /\ err = ""
    /\ trace = << >>
    /\ executed = << >>
    /\ reported = ""

\* versionsource.New(cluster) followed by one resolution of the page
Resolve ==
    /\ env.fixed
    /\ \E cluster \in ValidClusterNames \cup {"devnet"} :
          /\ call' = [fn |-> "fetchVersionFromDocs", cluster |-> cluster]
          /\ ret' = fetchVersionFromDocs(env.http, env.doc, cluster)
    /\ UNCHANGED <<mgr, env, configFile, cfg, validatorRPCClient,
                   stateVersion, installedVersion, pc, cycleVars>>

\* the traversal of parseVersionFromHTML (lines 124-157) on the page: the
\* list foundVersions it leaves
Traverse ==
    /\ env.fixed
    /\ env.http = "status 200"
    /\ call' = [fn |-> "traverse"]
    /\ ret' = [foundVersions |-> traverseAll(<< >>, env.doc)]
    /\ UNCHANGED <<mgr, env, configFile, cfg, validatorRPCClient,
                   stateVersion, installedVersion, pc, cycleVars>>

DocsNext ==
    \/ Resolve
    \/ Traverse
    \/ RefreshState
    \/ FetchRecommendedVersion
    \/ FetchPackageVersion
    \/ ConstraintAndDiff
    \/ ExecuteCommand

DocsSpec == DocsInit /\ [][DocsNext]_vars
\* ------------------------------------------------- the methods of a diff
\* A VersionDiff built from any two versions, parsed or absent, and its
\* methods called on it.
MaxSegment == 1

\* parsed versions X.Y.Z and X.Y.Z-1
ParsedVersions ==
    {<<a, b, c, p>> : a \in 0 .. MaxSegment, b \in 0 .. MaxSegment, c \in 0 .. MaxSegment,
                      p \in {0, 1}}

DiffInit ==
    /\ call \in {[fn |-> "VersionDiff", From |-> a, To |-> b] :
                    a \in ParsedVersions \cup {NilVersion},
                    b \in ParsedVersions \cup {NilVersion}}
    /\ ret = NoCall
    /\ mgr = NoManager
    /\ env = [fixed |-> FALSE]
    /\ gets = 0
    /\ configFile = [rpcURL |-> "", activeFile |-> "", passiveFile |-> "",
                     enabledWhenActive |-> FALSE, versionConstraint |-> EmptyString,
                     commandsCount |-> 0, cluster |-> ClusterNameMainnetBeta]
    /\ cfg = NoConfig
    /\ validatorRPCClient = FALSE
    /\ pc = "main"
    /\ stateVersion = NilVersion
    /\ installedVersion = NilVersion
    /\ versionTo = NilVersion
    /\ packageVersion = EmptyString
    /\ cmd_i = 0
    /\ err = ""
    /\ trace = << >>
    /\ executed = << >>
    /\ reported = ""

\* v.IsSameVersion()
CallIsSameVersion ==
    /\ call.fn = "VersionDiff"
    /\ ret' = [fn |-> "IsSameVersion", panic |-> FALSE,
               out |-> IsSameVersion(call.From, call.To)]
    /\ UNCHANGED <<mgr, env, call, configFile, cfg, validatorRPCClient, pc,
                   stateVersion, installedVersion, cycleVars>>

\* v.Direction(): with an absent endpoint IsSameVersion is false and
\* Core() is then called on a nil *version.Version, which panics
CallDirection ==
    /\ call.fn = "VersionDiff"
    /\ ret' = [fn |-> "Direction",
               panic |-> (call.From = NilVersion \/ call.To = NilVersion),
               out |-> IF call.From = NilVersion \/ call.To = NilVersion
                       THEN "panic: nil pointer dereference"
                       ELSE Direction(call.From, call.To)]
    /\ UNCHANGED <<mgr, env, call, configFile, cfg, validatorRPCClient, pc,
                   stateVersion, installedVersion, cycleVars>>

\* v.DirectionEmoji(): the same calls of Core() as Direction
CallDirectionEmoji ==
    /\ call.fn = "VersionDiff"
    /\ ret' = [fn |-> "DirectionEmoji",
               panic |-> (call.From = NilVersion \/ call.To = NilVersion),
               out |-> IF call.From = NilVersion \/ call.To = NilVersion
                       THEN "panic: nil pointer dereference"
                       ELSE DirectionEmoji(call.From, call.To)]
    /\ UNCHANGED <<mgr, env, call, configFile, cfg, validatorRPCClient, pc,
                   stateVersion, installedVersion, cycleVars>>

\* v.String(): a nil From prints as unknown and To.Core() is called, which
\* panics when To is nil too; then a nil To prints as unknown
CallString ==
    /\ call.fn = "VersionDiff"
    /\ ret' = [fn |-> "String",
               panic |-> (call.From = NilVersion /\ call.To = NilVersion),
               out |-> IF call.From = NilVersion
                       THEN IF call.To = NilVersion
                            THEN "panic: nil pointer dereference"
                            ELSE "unknown -> " \o CoreText(call.To)
                       ELSE IF call.To = NilVersion
                       THEN CoreText(call.From) \o " -> unknown"
                       ELSE CoreText(call.From) \o " -> " \o CoreText(call.To)]
    /\ UNCHANGED <<mgr, env, call, configFile, cfg, validatorRPCClient, pc,
                   stateVersion, installedVersion, cycleVars>>

DiffNext ==
    \/ CallIsSameVersion
    \/ CallDirection
    \/ CallDirectionEmoji
    \/ CallString

DiffSpec == DiffInit /\ [][DiffNext]_vars

\* ------------------------------------------------------------- manager
\* Time is counted in ticks, DayTicks of them in a day (UTC); a time is
\* the number of ticks since some midnight, a duration a number of ticks.
DayTicks == 4
MaxInterval == 5

\* Duration.Truncate: d rounded toward zero to a multiple of m
Truncate(d, m) == IF m <= 0 THEN d ELSE d - (d % m)

\* calculateNextBoundary that keeps a time lying on a boundary
calculateNextBoundary_KeepBoundary(now, intervalDuration) ==
    LET startOfDay == now - (now % DayTicks)
        durationSinceMidnight == now - startOfDay
        truncatedDuration == Truncate(durationSinceMidnight, intervalDuration)
    IN IF truncatedDuration = durationSinceMidnight
       THEN now
       ELSE startOfDay + truncatedDuration + intervalDuration

calculateNextBoundary(now, intervalDuration) ==
    LET startOfDay == now - (now % DayTicks)
        durationSinceMidnight == now - startOfDay
        truncatedDuration == Truncate(durationSinceMidnight, intervalDuration)
        nextBoundaryDuration == truncatedDuration + intervalDuration
    IN startOfDay + nextBoundaryDuration

\* the clock of the model runs over two days and starts again
Clock == 0 .. (2 * DayTicks - 1)

\* the boundaries of a day: midnight and every whole interval after it
IsBoundary(t, intervalDuration) == ((t % DayTicks) % intervalDuration) = 0

\* a Manager built by NewFromConfig whose run command has chosen the mode
\* and, in continuous mode, the interval; the identity gate is not
\* configured, or configured with the keys K1 (active) and K2 (passive)
\* and enabled_when_active false; one command is configured, the installed
\* version is 0.6.9 and the documentation site recommends 0.7.1-1 or
\* answers 404
SchedInit ==
    /\ mgr \in [mode : {"once", "interval"}, pc : {"start"}, clock : Clock,
                interval : 1 .. MaxInterval, now : {0}, nextSyncTime : {0}, wait : {0},
                logged : {"none"}, result : {"none"}, since : {FALSE}, skipped : {FALSE}]
    /\ env \in {[fixed |-> TRUE, probe |-> [kind |-> "ok", out |-> << <<0, 6, 9>> >>],
                 http |-> "status 404", doc |-> << >>],
                [fixed |-> TRUE, probe |-> [kind |-> "ok", out |-> << <<0, 6, 9>> >>],
                 http |-> "status 200",
                 doc |-> << CodeElement(<< << <<0, 7, 1>>, <<1>> >> >>) >>]}
    /\ call = NoCall
    /\ ret = NoCall
    /\ gets = 0
    /\ configFile \in {[rpcURL |-> "", activeFile |-> "", passiveFile |-> "",
                         enabledWhenActive |-> FALSE, versionConstraint |-> EmptyString,
                         commandsCount |-> 1, cluster |-> ClusterNameMainnetBeta],
                        [rpcURL |-> "http://validator:8899", activeFile |-> "K1",
                         passiveFile |-> "K2",
                         enabledWhenActive |-> FALSE, versionConstraint |-> EmptyString,
                         commandsCount |-> 1, cluster |-> ClusterNameMainnetBeta]}
    /\ cfg = [rpcURL |-> configFile.rpcURL, activeKeyPair |-> configFile.activeFile,
              passiveKeyPair |-> configFile.passiveFile,
              enabledWhenActive |-> configFile.enabledWhenActive,
              versionConstraint |-> configFile.versionConstraint,
              commandsCount |-> configFile.commandsCount,
              cluster |-> configFile.cluster]
    /\ validatorRPCClient = RPCClientSetUp(cfg.rpcURL, cfg.activeKeyPair, cfg.passiveKeyPair)
    /\ pc = "ready"
    /\ stateVersion = NilVersion
    /\ installedVersion = NilVersion
    /\ versionTo = NilVersion
    /\ packageVersion = EmptyString
    /\ cmd_i = 0
    /\ err = ""
    /\ trace = << >>
    /\ executed = << >>
    /\ reported = ""

notCycle == <<env, call, ret, configFile, cfg, validatorRPCClient,
              stateVersion, installedVersion, cycleVars>>

\* time passes; a sleep in progress gets shorter
Tick ==
    /\ mgr.mode # "none" /\ mgr.pc # "exited"
    /\ mgr' = [mgr EXCEPT !.clock = (mgr.clock + 1) % (2 * DayTicks),
                          !.wait = IF mgr.pc = "sleeping" /\ mgr.wait > 0
                                   THEN mgr.wait - 1 ELSE mgr.wait,
                          !.since = mgr.since
                                    \/ IsBoundary((mgr.clock + 1) % (2 * DayTicks), mgr.interval)]
    /\ UNCHANGED <<pc, notCycle>>

\* RunOnce, line 50: SyncVersion is called
RunOnce ==
    /\ mgr.mode = "once" /\ mgr.pc = "start"
    /\ mgr' = [mgr EXCEPT !.pc = "in SyncVersion"]
    /\ pc' = "ready"
    /\ UNCHANGED notCycle

\* RunOnce, line 50: what SyncVersion returned is returned
RunOnceReturn ==
    /\ mgr.mode = "once" /\ mgr.pc = "in SyncVersion" /\ pc = "returned"
    /\ mgr' = [mgr EXCEPT !.pc = "exited", !.result = err]
    /\ UNCHANGED <<pc, notCycle>>

\* RunOnInterval starting the first cycle at start-up
RunOnInterval_StartNow ==
    /\ mgr.mode = "interval" /\ mgr.pc = "start"
    /\ LET now == mgr.clock
           nextSyncTime == calculateNextBoundary(now, mgr.interval)
       IN mgr' = [mgr EXCEPT !.now = now, !.nextSyncTime = nextSyncTime,
                             !.wait = 0, !.pc = "loop", !.since = FALSE]
    /\ UNCHANGED <<pc, notCycle>>

\* RunOnInterval, lines 55-66: the wait for the first boundary
RunOnInterval ==
    /\ mgr.mode = "interval" /\ mgr.pc = "start"
    /\ LET now == mgr.clock
           nextSyncTime == calculateNextBoundary(now, mgr.interval)
       IN mgr' = [mgr EXCEPT !.now = now, !.nextSyncTime = nextSyncTime,
                             !.wait = IF nextSyncTime > now THEN nextSyncTime - now ELSE 0,
                             !.pc = IF nextSyncTime > now THEN "sleeping" ELSE "loop",
                             !.since = FALSE]
    /\ UNCHANGED <<pc, notCycle>>

\* time.Sleep returns, at the end of the wait or later
SleepReturns ==
    /\ mgr.mode = "interval" /\ mgr.pc = "sleeping" /\ mgr.wait = 0
    /\ mgr' = [mgr EXCEPT !.pc = "loop"]
    /\ UNCHANGED <<pc, notCycle>>

\* the loop starting the next cycle without waiting for the one in progress
runSyncVersionInterval_NoWait ==
    /\ mgr.mode = "interval" /\ mgr.pc \in {"loop", "in SyncVersion"}
    /\ mgr' = [mgr EXCEPT !.pc = "in SyncVersion", !.since = FALSE]
    /\ pc' = "ready"
    /\ UNCHANGED notCycle

\* RunOnInterval, line 70, and runSyncVersionInterval, lines 107-108:
\* SyncVersion is called
runSyncVersionInterval ==
    /\ mgr.mode = "interval" /\ mgr.pc = "loop"
    /\ mgr' = [mgr EXCEPT !.pc = "in SyncVersion", !.since = FALSE]
    /\ pc' = "ready"
    /\ UNCHANGED notCycle

\* the loop ending when a cycle has failed
LogResult_StopOnError ==
    /\ mgr.mode = "interval" /\ mgr.pc = "in SyncVersion" /\ pc = "returned"
    /\ LET now == mgr.clock
           nextSyncTime == calculateNextBoundary(now, mgr.interval)
       IN mgr' = [mgr EXCEPT !.now = now, !.nextSyncTime = nextSyncTime,
                             !.logged = IF err # "" THEN "failed" ELSE "succeeded",
                             !.result = err,
                             !.pc = IF err # "" THEN "exited" ELSE "logged"]
    /\ UNCHANGED <<pc, notCycle>>

\* runSyncVersionInterval, lines 109-127: SyncVersion has returned, the
\* result is logged with the next boundary
LogResult ==
    /\ mgr.mode = "interval" /\ mgr.pc = "in SyncVersion" /\ pc = "returned"
    /\ LET now == mgr.clock
           nextSyncTime == calculateNextBoundary(now, mgr.interval)
       IN mgr' = [mgr EXCEPT !.now = now, !.nextSyncTime = nextSyncTime,
                             !.logged = IF err # "" THEN "failed" ELSE "succeeded",
                             !.pc = "logged"]
    /\ UNCHANGED <<pc, notCycle>>

\* the loop running at once for a boundary that passed during the cycle
LoopNext_CatchUp ==
    /\ mgr.mode = "interval" /\ mgr.pc = "logged"
    /\ LET now == mgr.clock
           nextSyncTime == calculateNextBoundary(now, mgr.interval)
           waitDuration == IF mgr.since THEN 0 ELSE nextSyncTime - now
       IN mgr' = [mgr EXCEPT !.now = now, !.nextSyncTime = nextSyncTime,
                             !.wait = IF waitDuration > 0 THEN waitDuration ELSE 0,
                             !.pc = IF waitDuration > 0 THEN "sleeping" ELSE "loop",
                             !.skipped = mgr.since, !.since = FALSE]
    /\ UNCHANGED <<pc, notCycle>>

\* RunOnInterval, lines 72-79: the sleep until the next boundary
LoopNext ==
    /\ mgr.mode = "interval" /\ mgr.pc = "logged"
    /\ LET now == mgr.clock
           nextSyncTime == calculateNextBoundary(now, mgr.interval)
           waitDuration == nextSyncTime - now
       IN mgr' = [mgr EXCEPT !.now = now, !.nextSyncTime = nextSyncTime,
                             !.wait = IF waitDuration > 0 THEN waitDuration ELSE 0,
                             !.pc = IF waitDuration > 0 THEN "sleeping" ELSE "loop",
                             !.skipped = mgr.since, !.since = FALSE]
    /\ UNCHANGED <<pc, notCycle>>

\* one step of the SyncVersion the Manager has called
SyncVersionStep ==
    /\ mgr.pc = "in SyncVersion" /\ pc # "returned"
    /\ \/ RefreshState
       \/ FetchRecommendedVersion
       \/ FetchPackageVersion
       \/ IdentityGate
       \/ ConstraintAndDiff
       \/ ExecuteCommand

SchedNext ==
    \/ Tick
    \/ RunOnce
    \/ RunOnceReturn
    \/ RunOnInterval
    \/ SleepReturns
    \/ runSyncVersionInterval
    \/ LogResult
    \/ LoopNext
    \/ SyncVersionStep

SchedSpec == SchedInit /\ [][SchedNext]_vars

\* time passes, Sleep returns and the Manager's own steps are taken
SchedFair ==
    /\ SchedSpec
    /\ WF_vars(Tick)
    /\ WF_vars(SleepReturns)
    /\ WF_vars(runSyncVersionInterval)
    /\ WF_vars(LogResult)
    /\ WF_vars(LoopNext)
    /\ WF_vars(SyncVersionStep)

\* =================================================================
\* The claims
\* =================================================================
HasStep(s) == \E i \in 1 .. Len(trace) : trace[i].step = s

Triple(v) == <<v[1], v[2], v[3]>>

ConstraintError == "target version does not satisfy doublezero.version_constraint"

\* C1: in a cycle where the RPC client is set up, if getIdentity returned the
\* configured active public key and enabled_when_active is false, SyncVersion
\* returns 'sync not allowed when validator is active' and no command is
\* executed in that cycle.
C1_ActiveIdentityBlocked ==
    (validatorRPCClient /\ reported # "" /\ reported = cfg.activeKeyPair
        /\ ~cfg.enabledWhenActive)
    => /\ pc = "returned"
       /\ err = "sync not allowed when validator is active"
       /\ executed = << >>

C1_Witness ==
    /\ validatorRPCClient
    /\ reported = "K1" /\ cfg.activeKeyPair = "K1" /\ cfg.passiveKeyPair = "K2"
    /\ ~cfg.enabledWhenActive
    /\ HasStep("getIdentity")
    /\ pc = "returned"

\* C2: when the gate is applicable and the reported identity is neither the
\* active nor the passive key, the cycle fails with the unknown-identity
\* error and executes no command, whatever enabled_when_active is.
C2_UnknownIdentityBlocked ==
    (validatorRPCClient /\ reported # "" /\ reported # cfg.activeKeyPair
        /\ reported # cfg.passiveKeyPair)
    => /\ pc = "returned"
       /\ err = "validator identity does not match"
       /\ executed = << >>

C2_Witness ==
    /\ validatorRPCClient
    /\ reported = "K3" /\ cfg.activeKeyPair = "K1" /\ cfg.passiveKeyPair = "K2"
    /\ cfg.enabledWhenActive
    /\ pc = "returned"
    /\ err = "validator identity does not match"

\* C3 as stated: the identity gate returns no error exactly when the reported
\* identity equals the passive key, or equals the active key with
\* enabled_when_active true.
C3_Original ==
    \A i \in 1 .. Len(trace) :
        trace[i].step = "getIdentity"
        => (trace[i].err = ""
            <=> \/ reported = cfg.passiveKeyPair
                \/ (reported = cfg.activeKeyPair /\ cfg.enabledWhenActive))

\* C3 amended: the identity gate returns no error exactly when the reported
\* identity equals the passive key and differs from the active key, or equals
\* the active key with enabled_when_active true.
C3_GateProceedsExactly ==
    \A i \in 1 .. Len(trace) :
        trace[i].step = "getIdentity"
        => (trace[i].err = ""
            <=> \/ (reported = cfg.passiveKeyPair /\ reported # cfg.activeKeyPair)
                \/ (reported = cfg.activeKeyPair /\ cfg.enabledWhenActive))

C3_Witness ==
    /\ HasStep("getIdentity")
    /\ reported = "K2" /\ cfg.passiveKeyPair = "K2" /\ cfg.activeKeyPair = "K1"
    /\ ~cfg.enabledWhenActive
    /\ HasStep("diff")

\* C4: with a version constraint configured, a cycle whose resolved target
\* core version does not satisfy it executes no command and never returns
\* nil; once it reaches the constraint gate it returns the constraint
\* violation.
TargetViolatesConstraint ==
    /\ cfg.versionConstraint # EmptyString
    /\ versionTo # NilVersion
    /\ ~ConstraintsCheck(cfg.versionConstraint, <<versionTo[1], versionTo[2], versionTo[3], 0>>)

C4_ConstraintBlocks ==
    TargetViolatesConstraint
    => /\ executed = << >>
       /\ pc # "commands"
       /\ (pc = "returned" => err # "")
       /\ (HasStep("constraint") => pc = "returned" /\ err = ConstraintError)

C4_Witness ==
    /\ TargetViolatesConstraint
    /\ HasStep("constraint")
    /\ Triple(stateVersion) = <<0, 7, 1>>
    /\ packageVersion = << <<0, 7, 2>>, <<1>> >>
    /\ Triple(versionTo) = <<0, 7, 2>>
    /\ cfg.commandsCount > 0

\* C5: when the installed and the recommended version have the same
\* (major, minor, patch) and no gate blocked, the cycle returns nil and has
\* invoked no command.
C5_SameVersionNoCommands ==
    (HasStep("diff") /\ Triple(stateVersion) = Triple(versionTo))
    => /\ pc = "returned"
       /\ err = ""
       /\ executed = << >>

C5_Witness ==
    /\ HasStep("diff")
    /\ stateVersion = <<0, 7, 1, 0>>
    /\ packageVersion = << <<0, 7, 1>>, <<1>> >>
    /\ versionTo = <<0, 7, 1, 0>>
    /\ cfg.commandsCount > 0
    /\ pc = "returned"

\* C6: the commands are invoked in declared order, the i-th invocation
\* (zero-based) with CommandIndex = i, CommandsCount = n, ClusterName = the
\* configured cluster, VersionFrom = the core of the installed version,
\* VersionTo = the core of the recommended version and PackageVersionTo = the
\* resolved package string; a sync that returns nil has invoked all n.
C6_TemplateData ==
    /\ \A i \in 1 .. Len(executed) :
          executed[i] = [CommandIndex |-> i - 1,
                         CommandsCount |-> configFile.commandsCount,
                         ClusterName |-> configFile.cluster,
                         VersionFrom |-> << Triple(stateVersion) >>,
                         VersionTo |-> << Triple(versionTo) >>,
                         PackageVersionTo |-> packageVersion]
    /\ (pc = "commands" => Len(executed) = cmd_i)
    /\ (pc = "returned" /\ err = "" /\ HasStep("diff")
            /\ Triple(stateVersion) # Triple(versionTo)
        => Len(executed) = configFile.commandsCount)

C6_Witness ==
    /\ pc = "returned" /\ err = ""
    /\ configFile.commandsCount = 2
    /\ Len(executed) = 2
    /\ executed[2].CommandIndex = 1
    /\ executed[2].VersionFrom = << <<0, 6, 9>> >>
    /\ executed[2].VersionTo = << <<0, 7, 1>> >>
    /\ executed[2].PackageVersionTo = << <<0, 7, 1>>, <<1>> >>

\* C7: if the execution of a command reports an error, that command is the
\* last one executed in the cycle and the cycle returns that error.
C7_CommandErrorStops ==
    \A i \in 1 .. Len(trace) :
        (trace[i].step = "exec" /\ trace[i].err # "")
        => /\ i = Len(trace)
           /\ pc = "returned"
           /\ err = trace[i].err
           /\ Len(executed) = Cardinality({j \in 1 .. i : trace[j].step = "exec"})

C7_Witness ==
    /\ cfg.commandsCount = 2
    /\ Len(executed) = 1
    /\ pc = "returned"
    /\ err = "command failed"

\* C8: a cycle performs its steps in the order probe, fetch of the semver,
\* fetch of the package version, identity query, constraint, diff, commands;
\* every step but the last performed one succeeded, and a failed step ends
\* the cycle with its error.
StepRank(s) ==
    CASE s = "probe" -> 1
      [] s = "fetch semver" -> 2
      [] s = "fetch package" -> 3
      [] s = "getIdentity" -> 4
      [] s = "constraint" -> 5
      [] s = "diff" -> 6
      [] s = "exec" -> 7

C8_OrderAndShortCircuit ==
    /\ \A i \in 1 .. Len(trace) - 1 :
          /\ trace[i].err = ""
          /\ \/ StepRank(trace[i].step) < StepRank(trace[i + 1].step)
             \/ (trace[i].step = "exec" /\ trace[i + 1].step = "exec")
    /\ \A i \in 1 .. Len(trace) :
          /\ (i <= 3 => StepRank(trace[i].step) = i)
          /\ (trace[i].step = "exec" => HasStep("diff"))
          /\ (trace[i].step = "getIdentity" => i = 4)
          /\ (trace[i].err # "" => pc = "returned" /\ err = trace[i].err)
    /\ (pc = "returned" /\ err # "" => trace[Len(trace)].err = err)
    /\ (validatorRPCClient /\ Len(trace) >= 4 => trace[4].step = "getIdentity")

C8_Witness ==
    /\ Len(trace) = 3
    /\ trace[3].step = "fetch package"
    /\ trace[3].err = "fetch: docs returned status"
    /\ validatorRPCClient
    /\ cfg.commandsCount > 0
    /\ pc = "returned"
    /\ err = "fetch: docs returned status"

\* C9: when the configuration names no RPC endpoint or lacks one of the two
\* identity keyfiles, no cycle issues getIdentity or fails in the identity
\* gate: after the package version is resolved the cycle is at the constraint
\* gate or beyond.
IdentityUnconfigured ==
    configFile.rpcURL = "" \/ configFile.activeFile = "" \/ configFile.passiveFile = ""

StepErr(s) == trace[CHOOSE i \in 1 .. Len(trace) : trace[i].step = s].err

\* a < b in the lexicographic order of triples
TripleLess(a, b) ==
    \/ a[1] < b[1]
    \/ a[1] = b[1] /\ a[2] < b[2]
    \/ a[1] = b[1] /\ a[2] = b[2] /\ a[3] < b[3]

\* C11: with the constraint ">=0.6.9, <0.7.2" configured, the constraint
\* step of a cycle passes exactly when the core triple of the target is at
\* least 0.6.9 and below 0.7.2 (both comparators hold); in particular 0.7.1
\* is accepted, and 0.7.2 and every target below 0.6.9 are rejected with
\* the constraint error.
C11_ConstraintIsConjunction ==
    HasStep("constraint")
    => /\ StepErr("constraint") = ""
          <=> (~TripleLess(Triple(versionTo), <<0, 6, 9>>)
                  /\ TripleLess(Triple(versionTo), <<0, 7, 2>>))
       /\ Triple(versionTo) = <<0, 7, 1>> => StepErr("constraint") = ""
       /\ (Triple(versionTo) = <<0, 7, 2>> \/ TripleLess(Triple(versionTo), <<0, 6, 9>>))
          => (pc = "returned" /\ err = ConstraintError /\ executed = << >>)

C11_Witness ==
    /\ HasStep("constraint")
    /\ Triple(versionTo) = <<0, 6, 8>>
    /\ packageVersion = << <<0, 6, 8>>, <<1>> >>
    /\ err = ConstraintError

\* the install commands of a page in document order, each counted once:
\* those in the text of a <code> element or of a <pre> with a <code> child
RECURSIVE InstallCommands(_)
InstallCommands(es) ==
    IF es = << >> THEN << >>
    ELSE LET n == Head(es)
         IN (IF n.tag = "code" \/ (n.tag = "pre" /\ hasCodeChild(n))
             THEN extractText(n)
             ELSE InstallCommands(n.kids))
            \o InstallCommands(Tail(es))

\* C13: for every page served with status 200, a resolution for mainnet-beta
\* returns the version of the first install command of the page in document
\* order, and a resolution for testnet the version of the second one.
C13_Original ==
    (call.fn = "fetchVersionFromDocs" /\ env.http = "status 200")
    => LET cmds == InstallCommands(env.doc)
       IN /\ (call.cluster = ClusterNameMainnetBeta /\ Len(cmds) >= 1)
             => ret = [err |-> "", val |-> cmds[1]]
          /\ (call.cluster = ClusterNameTestnet /\ Len(cmds) >= 2)
             => ret = [err |-> "", val |-> cmds[2]]

\* C14: when the page is served with status 200 and no <code> element (nor
\* <pre> with a <code> child) holds an install command, a resolution fails
\* with the 'no install pattern found' parse error whatever the cluster
\* name, a known one or not, and the cycles on that page stop at the first
\* resolution with that error and execute no command.
C14_NoPatternFound ==
    (env.http = "status 200" /\ InstallCommands(env.doc) = << >>)
    => /\ call.fn = "fetchVersionFromDocs"
          => ret = [err |-> "parse: no install pattern found", val |-> EmptyString]
       /\ executed = << >>
       /\ ~HasStep("fetch package")
       /\ HasStep("fetch semver")
          => (pc = "returned" /\ err = "parse: no install pattern found")

C14_Witness ==
    /\ env.http = "status 200"
    /\ Len(env.doc) = 1 /\ env.doc[1].tag = "p"
    /\ call.fn = "fetchVersionFromDocs" /\ call.cluster = "devnet"
    /\ ret.err = "parse: no install pattern found"
    /\ pc = "returned" /\ err = "parse: no install pattern found"

\* the version strings of the install commands of a page
CommandVersions(doc) == {InstallCommands(doc)[i] : i \in 1 .. Len(InstallCommands(doc))}

\* C15: when the install commands of a page served with status 200 name
\* exactly one version, a resolution for testnet (position 1) returns no
\* version and the error 'could not find version for cluster testnet
\* (found 1 matches, need index 1)', which names the cluster and the number
\* of matches; a cycle for testnet stops there with no target and no
\* command executed, while a resolution for mainnet-beta (position 0)
\* succeeds.
C15_VersionNotFoundForCluster ==
    (env.http = "status 200" /\ Cardinality(CommandVersions(env.doc)) = 1)
    => /\ (call.fn = "fetchVersionFromDocs" /\ call.cluster = ClusterNameTestnet)
          => ret = [err |-> "parse: could not find version for cluster testnet"
                               \o " (found 1 matches, need index 1)",
                    val |-> EmptyString]
       /\ (call.fn = "fetchVersionFromDocs" /\ call.cluster = ClusterNameMainnetBeta)
          => ret = [err |-> "", val |-> InstallCommands(env.doc)[1]]
       /\ cfg.cluster = ClusterNameTestnet
          => /\ versionTo = NilVersion /\ packageVersion = EmptyString /\ executed = << >>
             /\ HasStep("fetch semver")
                => (pc = "returned"
                    /\ err = "parse: could not find version for cluster testnet"
                                \o " (found 1 matches, need index 1)")

C15_Witness ==
    /\ env.http = "status 200"
    /\ Len(env.doc) = 2 /\ CommandVersions(env.doc) = {<< <<0, 7, 1>>, <<1>> >>}
    /\ call.fn = "fetchVersionFromDocs" /\ call.cluster = ClusterNameTestnet
    /\ ret.err = "parse: could not find version for cluster testnet (found 1 matches, need index 1)"
    /\ cfg.cluster = ClusterNameTestnet /\ pc = "returned" /\ err = ret.err

\* C16: in a cycle whose first resolution gave the package string X.Y.Z-N,
\* the target version is X.Y.Z with no pre-release part; when X.Y.Z does
\* not parse as a version (a number beyond int64), the cycle has returned
\* 'failed to parse recommended version' with no target, no second
\* resolution and no command executed.
C16_SemverOfPackageVersion ==
    LET r == fetchVersionFromDocs(env.http, env.doc, cfg.cluster)
    IN (HasStep("fetch semver") /\ r.err = "")
       => IF \E i \in 1 .. 3 : r.val[1][i] = Overflow
          THEN /\ pc = "returned" /\ err = "failed to parse recommended version"
               /\ versionTo = NilVersion
               /\ ~HasStep("fetch package")
               /\ executed = << >>
          ELSE /\ versionTo = <<r.val[1][1], r.val[1][2], r.val[1][3], 0>>
               /\ StepErr("fetch semver") = ""

C16_Witness ==
    /\ HasStep("fetch semver")
    /\ fetchVersionFromDocs(env.http, env.doc, cfg.cluster).val = << <<0, 7, Overflow>>, <<1>> >>
    /\ pc = "returned" /\ err = "failed to parse recommended version"

\* the errors of a resolution that did not get a page to parse
FetchFailures == {"fetch: request failed", "fetch: docs returned status"}

\* the resolutions the current cycle has made
FetchSteps == {i \in 1 .. Len(trace) : trace[i].step \in {"fetch semver", "fetch package"}}

\* what C17 says of the GETs and of the failures before the response is
\* read: one GET for each resolution of the cycle, a cycle whose GET fails
\* ends after that one GET, a network failure and a 404 are fetch failures,
\* and an unreadable body is a parse failure, not a fetch failure
OneGetAndFailureKinds ==
    /\ gets = Cardinality(FetchSteps)
    /\ (HasStep("fetch semver") /\ env.http # "status 200")
       => (pc = "returned" /\ gets = 1 /\ err = StepErr("fetch semver") /\ executed = << >>)
    /\ call.fn = "fetchVersionFromDocs"
       => /\ env.http = "network error"
             => ret = [err |-> "fetch: request failed", val |-> EmptyString]
          /\ env.http = "status 404"
             => ret = [err |-> "fetch: docs returned status", val |-> EmptyString]
          /\ env.http = "status 200, unreadable body"
             => (ret.err = "parse: failed to parse HTML" /\ ret.err \notin FetchFailures)

\* C17 as stated: moreover every response with a 2xx status, 204 as well as
\* 200, is handed to the parser, so that its resolution does not end in a
\* fetch failure.
C17_Original ==
    /\ OneGetAndFailureKinds
    /\ (call.fn = "fetchVersionFromDocs"
            /\ env.http \in {"status 200", "status 204", "status 200, unreadable body"})
       => ret.err \notin FetchFailures

\* C17, amended: one GET for each resolution and no retry; a network
\* failure and every status other than 200, the 2xx status 204 included,
\* are fetch failures returned without a version; only a response with
\* status 200 is handed to the parser, whose failures are parse failures.
C17_OnlyStatus200Parsed ==
    /\ OneGetAndFailureKinds
    /\ call.fn = "fetchVersionFromDocs"
       => /\ env.http = "status 204"
             => ret = [err |-> "fetch: docs returned status", val |-> EmptyString]
          /\ env.http = "status 200" => ret.err \notin FetchFailures
    /\ (HasStep("fetch semver") /\ env.http = "status 204")
       => err = "fetch: docs returned status"

C17_Witness ==
    /\ env.http = "status 204"
    /\ call.fn = "fetchVersionFromDocs"
    /\ ret.err = "fetch: docs returned status"
    /\ pc = "returned" /\ gets = 1 /\ err = "fetch: docs returned status"

\* C18 as stated: for every parsed version a, on the diff (a, a)
\* IsSameVersion() returns true and Direction() returns 'no-change'.
C18_Original ==
    (call.fn = "VersionDiff" /\ call.From # NilVersion /\ call.From = call.To)
    => /\ ret.fn = "IsSameVersion" => ret.out = TRUE
       /\ ret.fn = "Direction" => ret.out = "no-change"

\* C18, amended: for every parsed version a, on the diff (a, a)
\* IsSameVersion() returns true and Direction() returns 'no change'.
C18_SameVersionNoChange ==
    (call.fn = "VersionDiff" /\ call.From # NilVersion /\ call.From = call.To)
    => /\ ret.fn = "IsSameVersion" => ret.out = TRUE
       /\ ret.fn = "Direction" => ret.out = "no change"

C18_Witness ==
    /\ call.fn = "VersionDiff"
    /\ call.From = <<0, 1, 1, 1>> /\ call.To = <<0, 1, 1, 1>>
    /\ ret.fn = "Direction" /\ ret.out = "no change"

\* C19: on a diff of two parsed versions, Direction() returns 'upgrade'
\* when the core triple of From is below that of To and 'downgrade' when
\* it is above; it returns something else only when the two core triples
\* are equal.
C19_DirectionFollowsCoreOrder ==
    (call.fn = "VersionDiff" /\ call.From # NilVersion /\ call.To # NilVersion
        /\ ret.fn = "Direction")
    => /\ TripleLess(Triple(call.From), Triple(call.To)) => ret.out = "upgrade"
       /\ TripleLess(Triple(call.To), Triple(call.From)) => ret.out = "downgrade"
       /\ ret.out \notin {"upgrade", "downgrade"} => Triple(call.From) = Triple(call.To)

C19_Witness ==
    /\ call.fn = "VersionDiff"
    /\ call.From = <<1, 0, 0, 0>> /\ call.To = <<0, 1, 1, 1>>
    /\ ret.fn = "Direction" /\ ret.out = "downgrade"

\* C20: on a diff with an absent From, an absent To or both absent,
\* IsSameVersion() returns false.
C20_AbsentNeverSame ==
    (call.fn = "VersionDiff" /\ (call.From = NilVersion \/ call.To = NilVersion)
        /\ ret.fn = "IsSameVersion")
    => ret.out = FALSE

C20_Witness ==
    /\ call.fn = "VersionDiff"
    /\ call.From = NilVersion /\ call.To = NilVersion
    /\ ret.fn = "IsSameVersion" /\ ret.out = FALSE

\* C21: whatever From and To, present or absent, a call of IsSameVersion,
\* Direction, DirectionEmoji or String on the diff returns a value and
\* does not fail.
C21_Original ==
    (call.fn = "VersionDiff"
        /\ ret.fn \in {"IsSameVersion", "Direction", "DirectionEmoji", "String"})
    => ~ret.panic

\* a cycle that reached the diff with an installed version and a target of
\* the same (major, minor, patch) has returned nil without executing a
\* command, and its diff is the same version
SameCoreNoSync ==
    (HasStep("diff") /\ Triple(stateVersion) = Triple(versionTo))
    => /\ IsSameVersion(stateVersion, versionTo)
       /\ pc = "returned" /\ err = "" /\ executed = << >>

\* C22 as stated: versions that differ only in the part after the core
\* (installed 0.7.1-1, recommended 0.7.1) are the same version, no sync is
\* triggered, and Direction() of their diff is 'no-change'.
C22_Original ==
    /\ SameCoreNoSync
    /\ (HasStep("diff") /\ Triple(stateVersion) = Triple(versionTo))
       => Direction(stateVersion, versionTo) = "no-change"

\* C22, amended: versions that differ only in the part after the core are
\* the same version, no sync is triggered, and Direction() of their diff
\* is 'no change'.
C22_CoreOnlyComparison ==
    /\ SameCoreNoSync
    /\ (HasStep("diff") /\ Triple(stateVersion) = Triple(versionTo))
       => Direction(stateVersion, versionTo) = "no change"

C22_Witness ==
    /\ HasStep("diff")
    /\ stateVersion = <<0, 7, 1, 1>> /\ versionTo = <<0, 7, 1, 0>>
    /\ cfg.commandsCount > 0
    /\ pc = "returned" /\ err = "" /\ executed = << >>

\* C23: a cycle executes only while the Manager stands in its call of
\* SyncVersion, and SyncVersion is entered only when no cycle is in
\* progress: from the start of the run or from the loop, after the cycle
\* before it has returned.
C23_CyclesSequential ==
    /\ [](pc \notin {"ready", "returned"} => mgr.pc = "in SyncVersion")
    /\ [][(pc' = "ready" /\ mgr'.pc = "in SyncVersion"
                /\ (pc # "ready" \/ mgr.pc # "in SyncVersion"))
             => (pc \in {"ready", "returned"} /\ mgr.pc \in {"start", "loop"})]_vars

\* a cycle in progress in continuous mode after a failed one
C23_Witness ==
    /\ mgr.mode = "interval" /\ mgr.pc = "in SyncVersion"
    /\ mgr.logged = "failed"
    /\ pc = "package"

\* C24: whenever the Manager has computed a next boundary from the time
\* now it read and its positive interval d, the boundary is the midnight
\* of now's day plus (floor((now - midnight) / d) + 1) * d; it is later
\* than now, at most d later, and exactly d later when now lies on a
\* boundary.
C24_NextBoundary ==
    (mgr.mode = "interval" /\ mgr.pc # "start")
    => LET now == mgr.now
           d == mgr.interval
           midnight == (now \div DayTicks) * DayTicks
           elapsed == now - midnight
       IN /\ d > 0
          /\ mgr.nextSyncTime = midnight + ((elapsed \div d) + 1) * d
          /\ mgr.nextSyncTime > now
          /\ mgr.nextSyncTime <= now + d
          /\ elapsed % d = 0 => mgr.nextSyncTime = now + d

\* on the second day, two ticks after midnight, with an interval of two
\* ticks: now lies on a boundary
C24_Witness ==
    /\ mgr.mode = "interval" /\ mgr.pc = "sleeping"
    /\ mgr.now = DayTicks + 2 /\ mgr.interval = 2
    /\ mgr.nextSyncTime = DayTicks + 4

\* C25: in continuous mode the Manager never exits, and a cycle that
\* returned an error is followed by the log of the failure and by another
\* call of SyncVersion; in single-run mode the Manager exits with what
\* the cycle returned.
C25_FailedCycleKeepsLoop ==
    /\ [](mgr.mode = "interval" => mgr.pc # "exited")
    /\ [](mgr.mode = "once" /\ mgr.pc = "exited" => mgr.result = err /\ pc = "returned")
    /\ (mgr.mode = "interval" /\ mgr.pc = "in SyncVersion" /\ pc = "returned" /\ err # "")
       ~> (mgr.logged = "failed" /\ mgr.pc = "in SyncVersion" /\ pc = "ready")

\* the next cycle is about to start after a failed one
C25_Witness ==
    /\ mgr.mode = "interval" /\ mgr.pc = "in SyncVersion"
    /\ mgr.logged = "failed" /\ err # ""
    /\ pc = "ready"

\* C26: with the gate configured (active K1, passive K2,
\* enabled_when_active false), a cycle that went past the gate issued its
\* own getIdentity query and was answered the passive key, and a cycle
\* whose query was answered the active key is blocked with no command
\* executed, whatever the cycles before it did: also when the cycle before
\* it succeeded, the validator being passive then.  (pc is "ready" again
\* once the Manager has called the next SyncVersion.)
C26_IdentityQueriedEveryCycle ==
    validatorRPCClient
    => /\ (HasStep("constraint") \/ HasStep("diff") \/ HasStep("exec") \/ pc = "gates")
          => (HasStep("getIdentity") /\ StepErr("getIdentity") = ""
              /\ reported = cfg.passiveKeyPair)
       /\ (HasStep("getIdentity") /\ reported = cfg.activeKeyPair)
          => (pc \in {"returned", "ready"}
              /\ err = "sync not allowed when validator is active"
              /\ executed = << >>)

\* the cycle before succeeded (passive), this one is answered the active key
C26_Witness ==
    /\ mgr.mode = "interval" /\ mgr.logged = "succeeded"
    /\ validatorRPCClient
    /\ HasStep("getIdentity") /\ reported = "K1" /\ cfg.activeKeyPair = "K1"
    /\ pc = "returned" /\ err = "sync not allowed when validator is active"

\* the errors of a cycle whose identity query failed, one for each way
\* the query can fail
IdentityQueryFailures ==
    {"failed to get validator identity: failed to get identity: " \o k :
        k \in {"transport error", "status not 200", "undecodable", "rpc error",
               "result not an object", "identity not a string"}}

\* C27: a cycle whose getIdentity query gave no identity (transport error,
\* status other than 200, undecodable body, JSON-RPC error, result that is
\* not an object or holds no string identity) has returned the error of
\* the failed query; it went on to no later step and executed no command.
C27_QueryFailureIsHard ==
    (HasStep("getIdentity") /\ reported = "")
    => /\ pc = "returned"
       /\ err \in IdentityQueryFailures
       /\ StepErr("getIdentity") = err
       /\ ~HasStep("constraint") /\ ~HasStep("diff") /\ ~HasStep("exec")
       /\ executed = << >>

C27_Witness ==
    /\ HasStep("getIdentity") /\ reported = ""
    /\ cfg.passiveKeyPair = "K2" /\ cfg.enabledWhenActive
    /\ pc = "returned"
    /\ err = "failed to get validator identity: failed to get identity: rpc error"

\* C28: a configuration file that omits validator.rpc_url behaves as one
\* that sets it to http://localhost:8899: the loaded rpc_url is that URL,
\* the run does not get past Initialize without both identity keyfiles,
\* and a cycle that reaches the diff has queried the validator's identity.
C28_Original ==
    configFile.rpcURL = ""
    => /\ pc \notin {"main", "exit"} => cfg.rpcURL = "http://localhost:8899"
       /\ (configFile.activeFile = "" \/ configFile.passiveFile = "") => pc \in {"main", "exit"}
       /\ HasStep("diff") => HasStep("getIdentity")

\* C29: a cycle that reached the diff (no gate blocked) with an installed
\* core version different from the recommended one, lower or higher, and
\* with commands configured is executing them or has returned after
\* executing at least the first; it has executed them all when it
\* returned nil.
C29_AnyDirectionSyncs ==
    (HasStep("diff") /\ Triple(stateVersion) # Triple(versionTo) /\ cfg.commandsCount > 0)
    => \/ pc = "commands"
       \/ /\ pc = "returned"
          /\ executed # << >>
          /\ err = "" => Len(executed) = cfg.commandsCount

\* a downgrade from 0.7.2 to 0.7.1 has run the two configured commands
C29_Witness ==
    /\ HasStep("diff")
    /\ Triple(stateVersion) = <<0, 7, 2>> /\ Triple(versionTo) = <<0, 7, 1>>
    /\ Direction(stateVersion, versionTo) = "downgrade"
    /\ cfg.commandsCount = 2 /\ Len(executed) = 2
    /\ pc = "returned" /\ err = ""

\* the gate is configured and the identity query failed, or reported a
\* key that is neither configured key, or reported the active key while
\* enabled_when_active is false
IdentityBlocks ==
    /\ validatorRPCClient
    /\ \/ reported = ""
       \/ isValidatorUnknown(reported, cfg.activeKeyPair, cfg.passiveKeyPair)
       \/ isValidatorActive(reported, cfg.activeKeyPair) /\ ~cfg.enabledWhenActive

\* a constraint is configured and the core of the recommended version
\* does not satisfy it
ConstraintBlocks ==
    /\ cfg.versionConstraint # EmptyString
    /\ ~ConstraintsCheck(cfg.versionConstraint, Core(versionTo))

\* C30: with equal installed and recommended core versions, a cycle that
\* reached the identity gate with a failed query, an unknown identity or
\* the active identity and enabled_when_active false has returned the
\* gate's error, and a cycle that reached the constraint gate with a
\* recommended version violating the constraint has returned the
\* constraint error; neither reached the diff nor executed a command.
C30_GatesBeforeSameVersion ==
    IsSameVersion(stateVersion, versionTo)
    => /\ (HasStep("getIdentity") /\ IdentityBlocks)
          => /\ pc = "returned"
             /\ err # "" /\ err = StepErr("getIdentity")
             /\ ~HasStep("diff") /\ executed = << >>
       /\ (HasStep("diff") /\ validatorRPCClient) => HasStep("getIdentity")
       /\ (HasStep("constraint") /\ ConstraintBlocks)
          => /\ pc = "returned"
             /\ err = ConstraintError
             /\ ~HasStep("diff") /\ executed = << >>
       /\ (HasStep("diff") /\ cfg.versionConstraint # EmptyString) => HasStep("constraint")

\* installed 0.7.1-1 and recommended 0.7.1, the validator reports the
\* active key with enabled_when_active false: the cycle returned the error
C30_Witness ==
    /\ IsSameVersion(stateVersion, versionTo)
    /\ Triple(stateVersion) = <<0, 7, 1>>
    /\ HasStep("getIdentity") /\ reported = cfg.activeKeyPair /\ ~cfg.enabledWhenActive
    /\ pc = "returned" /\ err = "sync not allowed when validator is active"


\* C31: in every command invocation of a cycle, VersionTo is
\* PackageVersionTo without its revision suffix, although the two come
\* from two GETs of the documentation page.
C31_Original ==
    \A i \in 1 .. Len(executed) :
        executed[i].VersionTo = SemverPart(executed[i].PackageVersionTo)

\* the first entry of a list that differs from v, as a list of at most one
RECURSIVE FirstOther(_, _)
FirstOther(v, s) ==
    IF s = << >> THEN << >>
    ELSE IF Head(s) # v THEN << Head(s) >>
    ELSE FirstOther(v, Tail(s))

\* C32: the list collected from one page has at most two entries and no
\* version string twice: it is the version of the first install command
\* of the page followed by the first version after it that differs, an
\* install command in <pre><code> counting once and a repeated version
\* taking no position.
C32_TwoDistinctVersions ==
    call.fn = "traverse"
    => LET found == ret.foundVersions
           cmds == InstallCommands(env.doc)
       IN /\ Len(found) <= 2
          /\ \A i, j \in 1 .. Len(found) : found[i] = found[j] => i = j
          /\ found = IF cmds = << >> THEN << >>
                     ELSE << cmds[1] >> \o FirstOther(cmds[1], cmds)

\* <pre><code> with 0.7.1-1, then <code> with 0.7.1-1 and 0.7.2-2: the
\* nested element and the repeated command add nothing, 0.7.2-2 is second
C32_Witness ==
    /\ call.fn = "traverse"
    /\ env.doc = << [tag |-> "pre", text |-> << >>,
                     kids |-> << CodeElement(<< << <<0, 7, 1>>, <<1>> >> >>) >>],
                    CodeElement(<< << <<0, 7, 1>>, <<1>> >>, << <<0, 7, 2>>, <<2>> >> >>) >>
    /\ ret.foundVersions = << << <<0, 7, 1>>, <<1>> >>, << <<0, 7, 2>>, <<2>> >> >>

\* the positions of the steps named s in the cycle's trace
StepsAt(s) == {i \in 1 .. Len(trace) : trace[i].step = s}

\* C33: a cycle queries the validator's identity at most once, and exactly
\* once when the gate is configured and the cycle reached the constraint
\* gate or a command; the query directly follows the second resolution and
\* precedes every command; a cycle that started its commands stops before
\* the last one only because a command failed.
C33_GateOncePerCycle ==
    /\ Cardinality(StepsAt("getIdentity")) <= 1
    /\ HasStep("getIdentity") => validatorRPCClient
    /\ \A i \in StepsAt("getIdentity") :
          /\ i > 1 /\ trace[i - 1].step = "fetch package"
          /\ \A j \in StepsAt("exec") : i < j
    /\ (validatorRPCClient /\ (pc \in {"gates", "commands"} \/ HasStep("diff") \/ HasStep("exec")))
       => Cardinality(StepsAt("getIdentity")) = 1
    /\ (HasStep("exec") /\ pc = "returned")
       => /\ err = "" => Len(executed) = cfg.commandsCount
          /\ Len(executed) < cfg.commandsCount => err = "command failed"
          /\ err \in {"", "command failed"}

\* the validator reported the passive key once and both commands ran
C33_Witness ==
    /\ validatorRPCClient
    /\ Cardinality(StepsAt("getIdentity")) = 1
    /\ reported = cfg.passiveKeyPair /\ reported # cfg.activeKeyPair
    /\ ~cfg.enabledWhenActive
    /\ cfg.commandsCount = 2 /\ Len(executed) = 2
    /\ pc = "returned" /\ err = ""

\* C34: checkValidatorIdentity returns 'unexpected validator identity
\* state' for no reported key, active key, passive key and flag, and no
\* cycle ends with it; with one key configured as active and as passive, a
\* validator reporting it is treated as active: blocked when
\* enabled_when_active is false, let through when it is true.
C34_FallThroughUnreachable ==
    /\ \A r \in Keys \cup {""}, a \in Keys, p \in Keys, f \in BOOLEAN :
          checkValidatorIdentity([err |-> "", val |-> r], a, p, f)
             # "unexpected validator identity state"
    /\ err # "unexpected validator identity state"
    /\ \A i \in 1 .. Len(trace) : trace[i].err # "unexpected validator identity state"
    /\ (HasStep("getIdentity") /\ cfg.activeKeyPair = cfg.passiveKeyPair
          /\ reported = cfg.activeKeyPair)
       => StepErr("getIdentity") = IF cfg.enabledWhenActive THEN ""
                                   ELSE "sync not allowed when validator is active"

\* K1 configured as both keys and reported, enabled_when_active false
C34_Witness ==
    /\ HasStep("getIdentity")
    /\ cfg.activeKeyPair = "K1" /\ cfg.passiveKeyPair = "K1" /\ reported = "K1"
    /\ ~cfg.enabledWhenActive
    /\ pc = "returned" /\ err = "sync not allowed when validator is active"
    /\ executed = << >>

\* C35: a cycle whose probe succeeded holds in State the version that
\* probe returned, and every command it runs is given that version's core
\* as VersionFrom; a cycle whose probe failed has returned the probe's
\* error with no further step, whatever version earlier cycles left in
\* State.
C35_FromIsThisCyclesProbe ==
    /\ (trace # << >> /\ trace[1].err = "")
       => /\ installedVersion # NilVersion
          /\ stateVersion = installedVersion
          /\ \A i \in 1 .. Len(executed) :
                executed[i].VersionFrom = VersionString(Core(installedVersion))
    /\ (trace # << >> /\ trace[1].err # "")
       => /\ trace[1].step = "probe" /\ Len(trace) = 1
          /\ pc = "returned" /\ err = trace[1].err
          /\ executed = << >> /\ versionTo = NilVersion

\* installed 0.7.2 probed, recommended 0.7.1: the command is given 0.7.2
C35_Witness ==
    /\ trace # << >> /\ trace[1].step = "probe" /\ trace[1].err = ""
    /\ installedVersion = <<0, 7, 2, 0>>
    /\ Len(executed) >= 1
    /\ executed[1].VersionFrom = << <<0, 7, 2>> >>
    /\ executed[1].VersionTo = << <<0, 7, 1>> >>

\* a step of the Manager that starts a cycle in continuous mode
CycleStarts ==
    /\ mgr.mode = "interval"
    /\ mgr.pc # "in SyncVersion" /\ mgr'.pc = "in SyncVersion"

\* C36: when a cycle has ended the loop sleeps for a positive time, at
\* most the interval, until the boundary calculateNextBoundary gives for
\* the time the cycle ended, also when boundaries passed during the cycle;
\* and a cycle starts only after the clock reached a boundary since that
\* sleep (or the start-up wait) began, so every cycle started has a
\* boundary of its own.
C36_NoCatchUp ==
    /\ [][(mgr.mode = "interval" /\ mgr.pc = "logged" /\ mgr'.pc # "logged")
          => /\ mgr'.pc = "sleeping"
             /\ mgr'.now = mgr.clock
             /\ mgr'.nextSyncTime = calculateNextBoundary(mgr.clock, mgr.interval)
             /\ mgr'.wait = mgr'.nextSyncTime - mgr'.now
             /\ mgr'.wait > 0 /\ mgr'.wait <= mgr.interval]_vars
    /\ [][CycleStarts => (mgr.pc = "loop" /\ mgr.since)]_vars

\* a boundary passed during the last cycle and the loop is asleep
C36_Witness ==
    /\ mgr.mode = "interval" /\ mgr.pc = "sleeping"
    /\ mgr.logged # "none" /\ mgr.skipped
    /\ mgr.wait > 0

\* C37: RunOnInterval does not start a cycle at start-up: it first sleeps
\* for the positive time to the boundary calculateNextBoundary gives for
\* the start-up time, and no cycle has started while no sleep has ended;
\* every cycle starts when its sleep has run out, the clock having
\* reached a boundary.
C37_FirstCycleWaits ==
    /\ [][(mgr.mode = "interval" /\ mgr.pc = "start" /\ mgr'.pc # "start")
          => /\ mgr'.pc = "sleeping"
             /\ mgr'.nextSyncTime = calculateNextBoundary(mgr.clock, mgr.interval)
             /\ mgr'.wait = mgr'.nextSyncTime - mgr.clock
             /\ mgr'.wait > 0
             /\ pc' = "ready" /\ trace' = << >>]_vars
    /\ [][CycleStarts => (mgr.wait = 0 /\ mgr.since)]_vars
    /\ [](mgr.mode = "interval" /\ mgr.pc = "start" => trace = << >>)

\* the first cycle is in progress, started after the start-up wait ended
C37_Witness ==
    /\ mgr.mode = "interval" /\ mgr.pc = "in SyncVersion"
    /\ mgr.logged = "none"
    /\ mgr.wait = 0
    /\ HasStep("probe")
====
